---- MODULE Spec2Model ----
(***************************************************************************)
(* Model of the network monitor: the MCP session object of src/index.ts    *)
(* (NetworkMonitorMCP) and the CDP message listener of src/monitor.ts      *)
(* (startNetworkMonitoring).                                               *)
(*                                                                         *)
(* Encoding.  A JavaScript string is a sequence of characters, an optional *)
(* value is a sequence of length at most one (<<>> is undefined, <<v>> is  *)
(* the value v), null object references are 0.                             *)
(***************************************************************************)
EXTENDS Integers, Sequences, FiniteSets, TLC

\* ---------------------------------------------------------------- bounds
MaxUuid == 2
MaxWs == 3
MaxBrowser == 2
MaxInflight == 2
MaxCap == 2
NumIds == 2
MaxBuf == 2
MaxTime == 2

\* max_buffer_size passed by updateFilter to startNetworkMonitoring
UpdateBufferSize == 20

\* StartMonitorSchema: max_buffer_size is at most 50
MaxBufferSize == 50

Ids == 1..NumIds
Caps == 1..MaxCap
WsIds == 1..MaxWs
\* command ids drawn by Math.floor(Math.random() * 1000000): 1 is the id
\* Network.enable was sent with, 2 stands for every other value.  Nothing reads
\* the id of a command before its reply arrives, so it is drawn at the reply.
CmdIds == {1, 2}
Slots == {1}
\* tool calls the server runs at once when requests overlap
ConcSlots == {1, 2}

None == <<>>
Some(v) == <<v>>

\* ------------------------------------------------------- input alphabets
UrlApi == <<"h", "api", "d">>
UrlStatic == <<"h", "static">>
Urls == {UrlApi, UrlStatic}
Methods == {"GET", "POST"}
\* the requests the browser issues
Requests == {<<UrlApi, "GET">>, <<UrlStatic, "POST">>}
MimeJson == <<"json">>
MimeJsonCharset == <<"json", "utf8">>
MimeHtml == <<"html">>
\* response.mimeType: undefined, "", or a string
Mimes == {None, Some(<<>>), Some(MimeJson), Some(MimeJsonCharset), Some(MimeHtml)}
\* the mime types the browser reports
ResponseMimes == {Some(MimeJsonCharset), Some(MimeHtml)}

\* FilterConfig: contentTypes is 'all' (ctAll) or the array cts;
\* urlIncludePatterns is 'all' (urlAll) or the array pats; methods is
\* undefined (hasMethods = FALSE) or the array methods.  A pattern is a
\* literal regular expression (valid) or one that does not compile.
FilterDefault ==
  [ctAll |-> FALSE, cts |-> <<MimeJson>>, urlAll |-> TRUE, pats |-> <<>>,
   hasMethods |-> FALSE, methods |-> <<>>]
FilterApiGet ==
  [ctAll |-> FALSE, cts |-> <<MimeJson>>, urlAll |-> FALSE,
   pats |-> <<[valid |-> FALSE, lit |-> <<"(">>], [valid |-> TRUE, lit |-> <<"api">>]>>,
   hasMethods |-> TRUE, methods |-> <<"GET">>]
FilterAll ==
  [ctAll |-> TRUE, cts |-> <<>>, urlAll |-> TRUE, pats |-> <<>>,
   hasMethods |-> TRUE, methods |-> <<>>]
Filters == {FilterDefault, FilterApiGet, FilterAll}
\* the filters the caller passes
SessionFilters == {FilterDefault, FilterApiGet}

\* ------------------------------------------------------ string helpers
\* String.prototype.includes
Includes(s, t) ==
  \E i \in 0..(Len(s) - Len(t)) : \A k \in 1..Len(t) : s[i + k] = t[k]

Present(o) == o # None

\* JavaScript truthiness of an optional string
Truthy(o) == o # None /\ o[1] # <<>>

RegexEquals(p, url) == url = p.lit

\* new RegExp(pattern).test(url) for a literal pattern
RegexTest(p, url) == Includes(url, p.lit)

\* ------------------------------------------------------- filter engine
InvalidMatches(p, url) == ~p.valid \/ RegexTest(p, url)

\* try { if (new RegExp(pattern).test(url)) matched = true } catch { log }:
\* a pattern that does not compile is skipped
PatternMatches(p, url) == p.valid /\ RegexTest(p, url)

MethodsStrict(url, method, filter) ==
  LET matched == \E i \in 1..Len(filter.pats) :
                    PatternMatches(filter.pats[i], url)
  IN  IF ~filter.urlAll /\ ~matched THEN FALSE
      ELSE IF filter.hasMethods
              /\ ~(\E i \in 1..Len(filter.methods) : filter.methods[i] = method)
           THEN FALSE
           ELSE TRUE

shouldIncludeRequestByUrlAndMethod(url, method, filter) ==
  LET matched == \E i \in 1..Len(filter.pats) :
                    PatternMatches(filter.pats[i], url)
  IN  IF ~filter.urlAll /\ ~matched THEN FALSE
      ELSE IF filter.hasMethods /\ Len(filter.methods) > 0
              /\ ~(\E i \in 1..Len(filter.methods) : filter.methods[i] = method)
           THEN FALSE
           ELSE TRUE

\* if (!shouldIncludeRequestByUrlAndMethod(...)) return;
SkipNever(url, method, filter) == FALSE

SkipRequest(url, method, filter) ==
  ~shouldIncludeRequestByUrlAndMethod(url, method, filter)

shouldIncludeRequest(contentType, filter) ==
  IF filter.ctAll THEN TRUE
  ELSE IF Len(filter.cts) = 0 THEN FALSE
  ELSE IF Truthy(contentType)
       THEN \E i \in 1..Len(filter.cts) : Includes(contentType[1], filter.cts[i])
       ELSE FALSE

\* ---------------------------------------------------------------- state
VARIABLES
  isMonitoring,      \* NetworkMonitorMCP.isMonitoring
  cdpWebSocketUrl,   \* 0 (null) or the browser whose page the url names
  networkBuffer,     \* NetworkMonitorMCP.networkBuffer
  cdpWebSocket,      \* 0 (null) or a socket id
  browserServer,     \* 0 (null) or a browser id
  sockets,           \* every WebSocket created, with its message listener
  browsers,          \* browser servers launched and still running
  pendingRequests,   \* the Map handed to startNetworkMonitoring, per request id
  inflight,          \* Network.getResponseBody commands awaiting their reply
  nextUuid,          \* randomUUID(): the next fresh value
  nextWs,
  nextBrowser,
  calls,             \* tool calls suspended at an await
  idHist,            \* history, per request id: "unseen"; "rejected" (only requests
                     \* that failed the early filter) and "rejectedResponded" (then a
                     \* response); "accepted" (a request passed the early filter and
                     \* awaits its response); "responded" (that response was observed)
  promoLog,          \* history: uuids in order of first promotion since the last clear
  reply              \* what the last tool call that returned gave its caller

vars == <<isMonitoring, cdpWebSocketUrl, networkBuffer, cdpWebSocket, browserServer,
          sockets, browsers, pendingRequests, inflight, nextUuid, nextWs,
          nextBrowser, calls, idHist, promoLog, reply>>

sessionVars == <<isMonitoring, cdpWebSocketUrl, cdpWebSocket, browserServer,
                 browsers, nextWs, nextBrowser, calls, reply>>

NoSocket ==
  [state |-> "unused", listener |-> FALSE, filter |-> FilterDefault, max |-> 0,
   pend |-> FALSE, browser |-> 0]

\* had and cap are history: the number of Buffer records and the capacity of
\* the connection in use when an updateFilter call began
IdleCall == [op |-> "idle", pc |-> "idle", b |-> 0, had |-> 0, cap |-> 0]

\* the outcome of a tool call: the status it returns or the error it throws
NoReply == [kind |-> "none"]
Started == [kind |-> "started"]
StartError == [kind |-> "Failed to start monitor"]
Stopped == [kind |-> "Network monitoring stopped"]
UpdatedWithCounts ==
  [kind |-> "updated", buffer_size |-> UpdateBufferSize, removedCount |-> 0,
   remainingCount |-> 0]

\* the MonitorStatus of updateFilter, its filter and endpoint fields left out
Updated == [kind |-> "updated", buffer_size |-> UpdateBufferSize]
NotActive == [kind |-> "Network monitoring is not active"]
UpdateError == [kind |-> "Failed to connect to CDP"]
\* the ZodError that filterSchema.parse of updateFilter throws
InvalidArguments == [kind |-> "ZodError"]

RequestIdAsUuid(id, uuid, url, method) ==
  [id |-> id, uuid |-> id, url |-> url, method |-> method, response |-> None]

\* a NetworkRequest as created by the Network.requestWillBeSent handler
NewRequest(id, uuid, url, method) ==
  [id |-> id, uuid |-> uuid, url |-> url, method |-> method, response |-> None]

\* ---------------------------------------------------- sequence helpers
RemoveAt(s, i) == SubSeq(s, 1, i - 1) \o SubSeq(s, i + 1, Len(s))

Uuids(s) == {s[i].uuid : i \in 1..Len(s)}

PendingRecords == {pendingRequests[c][1] : c \in {d \in Ids : pendingRequests[d] # None}}

PendingKeep(pending, id) == pending

\* pendingRequests.delete(requestId)
PendingDelete(pending, id) == [pending EXCEPT ![id] = None]

\* buffer.push(rec); if (buffer.length > maxBufferSize) buffer.shift();
PushShift(buffer, rec, max) ==
  LET b == Append(buffer, rec) IN IF Len(b) > max THEN Tail(b) ELSE b

\* buffer.find / findIndex by request id: the first match, 0 when none
FindIndexById(buffer, id) ==
  IF \E i \in 1..Len(buffer) : buffer[i].id = id
  THEN CHOOSE i \in 1..Len(buffer) :
         buffer[i].id = id /\ \A j \in 1..(i - 1) : buffer[j].id # id
  ELSE 0

\* !req.response.body
LacksBody(rec) == rec.response[1].body = None \/ rec.response[1].body[1].empty

\* buffer.slice().reverse().find((req) => req.response && !req.response.body)
FindRecentWithoutBody(buffer) ==
  LET ok(i) == buffer[i].response # None /\ LacksBody(buffer[i])
  IN  IF \E i \in 1..Len(buffer) : ok(i)
      THEN CHOOSE i \in 1..Len(buffer) :
             ok(i) /\ \A j \in (i + 1)..Len(buffer) : ~ok(j)
      ELSE 0

WithResponse(rec, mime) ==
  [rec EXCEPT !.response = Some([mimeType |-> mime, body |-> None])]

WithBody(rec, body) ==
  [rec EXCEPT !.response = Some([rec.response[1] EXCEPT !.body = Some(body)])]

Listening(w) == sockets[w].state = "open" /\ sockets[w].listener

LogPromotion(uuid) ==
  IF \E i \in 1..Len(promoLog) : promoLog[i] = uuid THEN promoLog
  ELSE Append(promoLog, uuid)

\* ------------------------------------------------ the message listener
\* Network.requestWillBeSent delivered to the listener of socket w
RequestObserved(w, id, url, method) ==
  /\ Listening(w)
  /\ LET L == sockets[w]
         nr == NewRequest(id, nextUuid, url, method)
     IN  IF SkipRequest(url, method, L.filter)
         THEN UNCHANGED <<networkBuffer, pendingRequests, nextUuid>>
         ELSE /\ nextUuid <= MaxUuid
              /\ nextUuid' = nextUuid + 1
              /\ IF L.pend
                 THEN /\ pendingRequests' = [pendingRequests EXCEPT ![id] = Some(nr)]
                      /\ UNCHANGED networkBuffer
                 ELSE /\ networkBuffer' = PushShift(networkBuffer, nr, L.max)
                      /\ UNCHANGED pendingRequests
  /\ idHist' = [idHist EXCEPT ![id] =
                  IF shouldIncludeRequestByUrlAndMethod(url, method, sockets[w].filter)
                  THEN "accepted"
                  ELSE IF @ = "unseen" THEN "rejected" ELSE @]
  /\ UNCHANGED <<sessionVars, sockets, inflight, promoLog>>

\* Network.responseReceived delivered to the listener of socket w
ResponseObserved(w, id, mime) ==
  /\ Listening(w)
  /\ LET L == sockets[w]
         include == shouldIncludeRequest(mime, L.filter)
         fetch(uuid) == Append(inflight, [ws |-> w, id |-> id, src |-> uuid])
     IN  IF L.pend
         THEN IF pendingRequests[id] # None
              THEN LET er == WithResponse(pendingRequests[id][1], mime)
                   IN  /\ pendingRequests' = PendingDelete(pendingRequests, id)
                       /\ IF include
                          THEN /\ Len(inflight) < MaxInflight
                               /\ networkBuffer' = PushShift(networkBuffer, er, L.max)
                               /\ inflight' = fetch(er.uuid)
                               /\ promoLog' = LogPromotion(er.uuid)
                          ELSE UNCHANGED <<networkBuffer, inflight, promoLog>>
              ELSE UNCHANGED <<networkBuffer, pendingRequests, inflight, promoLog>>
         ELSE LET i == FindIndexById(networkBuffer, id)
              IN  /\ UNCHANGED pendingRequests
                  /\ IF i # 0
                     THEN LET er == WithResponse(networkBuffer[i], mime)
                          IN  IF include
                              THEN /\ Len(inflight) < MaxInflight
                                   /\ networkBuffer' = [networkBuffer EXCEPT ![i] = er]
                                   /\ inflight' = fetch(er.uuid)
                                   /\ promoLog' = LogPromotion(er.uuid)
                              ELSE /\ networkBuffer' = RemoveAt(networkBuffer, i)
                                   /\ UNCHANGED <<inflight, promoLog>>
                     ELSE UNCHANGED <<networkBuffer, inflight, promoLog>>
  /\ idHist' = [idHist EXCEPT ![id] =
                  CASE @ = "rejected" -> "rejectedResponded"
                    [] @ = "accepted" -> "responded"
                    [] OTHER -> @]
  /\ UNCHANGED <<sessionVars, sockets, nextUuid>>

\* the reply {id: cmd, result: {body}} to the k-th outstanding
\* Network.getResponseBody
BodyFetched(w, k, empty, cmd) ==
  /\ Listening(w)
  /\ k \in 1..Len(inflight)
  /\ inflight[k].ws = w
  /\ inflight' = RemoveAt(inflight, k)
  /\ LET e == inflight[k]
         i == FindRecentWithoutBody(networkBuffer)
     IN  IF cmd = 1 \/ i = 0
         THEN UNCHANGED networkBuffer
         ELSE networkBuffer' =
                [networkBuffer EXCEPT ![i] = WithBody(@, [src |-> e.src, empty |-> empty])]
  /\ UNCHANGED <<sessionVars, sockets, pendingRequests, nextUuid, idHist, promoLog>>

\* the reply {id, error} to the k-th outstanding Network.getResponseBody
BodyFetchFailed(w, k) ==
  /\ Listening(w)
  /\ k \in 1..Len(inflight)
  /\ inflight[k].ws = w
  /\ inflight' = RemoveAt(inflight, k)
  /\ UNCHANGED <<sessionVars, sockets, networkBuffer, pendingRequests, nextUuid,
                 idHist, promoLog>>

\* the messages that are not a well-formed event: event.data that JSON.parse
\* rejects, and events whose params, or one field of params, is missing
MalformedShapes ==
  {"unparseable", "request without params", "request without request",
   "request without requestId", "response without params",
   "response without response"}

\* a malformed message delivered to the listener of socket w.  JSON.parse, the
\* destructuring of an undefined params, request.url on an undefined request
\* and response.status on an undefined response throw inside the try block,
\* before anything is assigned, and the catch logs.  A requestWillBeSent whose
\* params lack only requestId throws nowhere: the record is created with the
\* id undefined (0).
MalformedObserved(w, shape, url, method) ==
  /\ Listening(w)
  /\ LET L == sockets[w]
         nr == NewRequest(0, nextUuid, url, method)
     IN  IF shape = "request without requestId" /\ ~SkipRequest(url, method, L.filter)
         THEN /\ nextUuid <= MaxUuid
              /\ nextUuid' = nextUuid + 1
              /\ IF L.pend
                 THEN /\ pendingRequests' =
                           [c \in DOMAIN pendingRequests \cup {0} |->
                              IF c = 0 THEN Some(nr) ELSE pendingRequests[c]]
                      /\ UNCHANGED networkBuffer
                 ELSE /\ networkBuffer' = PushShift(networkBuffer, nr, L.max)
                      /\ UNCHANGED pendingRequests
         ELSE UNCHANGED <<networkBuffer, pendingRequests, nextUuid>>
  /\ UNCHANGED <<sessionVars, sockets, inflight, idHist, promoLog>>

KeepSockets(ws) == sockets

\* ------------------------------------------------ sockets and browsers
\* WebSocket.close(), or the peer going away: no message is delivered afterwards
CloseSockets(ws) ==
  [w \in WsIds |-> IF w \in ws /\ sockets[w].state = "open"
                   THEN [NoSocket EXCEPT !.state = "closed"] ELSE sockets[w]]

DropReplies(ws) == SelectSeq(inflight, LAMBDA e : e.ws \notin ws)

SocketsOf(b) == {w \in WsIds : sockets[w].state = "open" /\ sockets[w].browser = b}

\* startNetworkMonitoring(ws, buffer, filter, maxBufferSize, pendingRequests):
\* the socket w with its message listener attached
Monitored(b, filter, max, pend) ==
  [state |-> "open", listener |-> TRUE, filter |-> filter, max |-> max,
   pend |-> pend, browser |-> b]

Idle(k) == calls[k].op = "idle"
At(k, op, pc) == calls[k].op = op /\ calls[k].pc = pc
Goto(k, pc) == [calls EXCEPT ![k].pc = pc]
Return(k) == [calls EXCEPT ![k] = IdleCall]

\* ---------------------------------------------------------- startMonitor
\* the max_buffer_size values and filter shapes a caller passes
BufferSizes == {MaxCap, MaxBufferSize, MaxBufferSize + 1}

AnyBufferSize(max, wellFormed) == wellFormed

\* StartMonitorSchema.parse accepts: max_buffer_size is at most 50 and the
\* filter has the declared shape
StartMonitorSchema(max, wellFormed) == max <= MaxBufferSize /\ wellFormed

\* StartMonitorSchema.parse throws: the catch block rethrows it as
\* "Failed to start monitor"
StartRejected(k, max, wellFormed) ==
  /\ Idle(k)
  /\ ~StartMonitorSchema(max, wellFormed)
  /\ reply' = StartError
  /\ UNCHANGED <<isMonitoring, cdpWebSocketUrl, networkBuffer, cdpWebSocket,
                 browserServer, sockets, browsers, pendingRequests, inflight,
                 nextUuid, nextWs, nextBrowser, calls, idHist, promoLog>>

\* StartMonitorSchema.parse, then the first await (browserServer.close()).
\* The parsed options are read again only by StartConnected, which draws them.
StartBegin(k) ==
  /\ Idle(k)
  /\ calls' = [calls EXCEPT ![k] =
                 [op |-> "start", pc |-> IF browserServer # 0 THEN "close" ELSE "launch",
                  b |-> browserServer, had |-> 0, cap |-> 0]]
  /\ UNCHANGED <<isMonitoring, cdpWebSocketUrl, networkBuffer, cdpWebSocket,
                 browserServer, sockets, browsers, pendingRequests, inflight,
                 nextUuid, nextWs, nextBrowser, idHist, promoLog>>
  /\ UNCHANGED reply

\* await this.browserServer.close() returns; this.browserServer = null
StartBrowserClosed(k) ==
  /\ At(k, "start", "close")
  /\ browsers' = browsers \ {calls[k].b}
  /\ sockets' = CloseSockets(SocketsOf(calls[k].b))
  /\ inflight' = DropReplies(SocketsOf(calls[k].b))
  /\ browserServer' = 0
  /\ calls' = Goto(k, "launch")
  /\ UNCHANGED <<isMonitoring, cdpWebSocketUrl, networkBuffer, cdpWebSocket,
                 pendingRequests, nextUuid, nextWs, nextBrowser, idHist, promoLog>>
  /\ UNCHANGED reply

\* this.browserServer = await launchBrowserServer(chromium, this.cdpPort)
StartLaunched(k) ==
  /\ At(k, "start", "launch")
  /\ nextBrowser <= MaxBrowser
  /\ browserServer' = nextBrowser
  /\ browsers' = browsers \cup {nextBrowser}
  /\ nextBrowser' = nextBrowser + 1
  /\ calls' = Goto(k, "list")
  /\ UNCHANGED <<isMonitoring, cdpWebSocketUrl, networkBuffer, cdpWebSocket, sockets,
                 pendingRequests, inflight, nextUuid, nextWs, idHist, promoLog>>
  /\ UNCHANGED reply

\* fetch(/json/list); this.cdpWebSocketUrl = pages[0].webSocketDebuggerUrl
StartListed(k) ==
  /\ At(k, "start", "list")
  /\ browserServer \in browsers
  /\ cdpWebSocketUrl' = browserServer
  /\ calls' = [calls EXCEPT ![k].pc = "connect", ![k].b = browserServer]
  /\ UNCHANGED <<isMonitoring, networkBuffer, cdpWebSocket, browserServer, sockets,
                 browsers, pendingRequests, inflight, nextUuid, nextWs, nextBrowser,
                 idHist, promoLog>>
  /\ UNCHANGED reply

\* an await of startMonitor rejects: the catch block rethrows
StartFailed(k) ==
  /\ calls[k].op = "start" /\ calls[k].pc \in {"launch", "list", "connect"}
  /\ calls' = Return(k)
  /\ UNCHANGED <<isMonitoring, cdpWebSocketUrl, networkBuffer, cdpWebSocket,
                 browserServer, sockets, browsers, pendingRequests, inflight,
                 nextUuid, nextWs, nextBrowser, idHist, promoLog>>
  /\ reply' = StartError

\* this.cdpWebSocket = await connectToCdp(url); await startNetworkMonitoring(
\* ws, networkBuffer, filter, max_buffer_size); this.isMonitoring = true
StartConnected(k, filter, max) ==
  /\ At(k, "start", "connect")
  /\ calls[k].b \in browsers
  /\ nextWs <= MaxWs
  /\ sockets' = [sockets EXCEPT ![nextWs] = Monitored(calls[k].b, filter, max, FALSE)]
  /\ cdpWebSocket' = nextWs
  /\ nextWs' = nextWs + 1
  /\ isMonitoring' = TRUE
  /\ calls' = Return(k)
  /\ UNCHANGED <<cdpWebSocketUrl, networkBuffer, browserServer, browsers,
                 pendingRequests, inflight, nextUuid, nextBrowser, idHist, promoLog>>
  /\ reply' = Started

\* ----------------------------------------------------------- stopMonitor
StopResetSkipped == [isMonitoring |-> isMonitoring, cdpWebSocketUrl |-> cdpWebSocketUrl]

\* this.isMonitoring = false; this.cdpWebSocketUrl = null
StopReset == [isMonitoring |-> FALSE, cdpWebSocketUrl |-> 0]

\* cdpWebSocket.close(); then await browserServer.close() when there is one
StopBegin(k) ==
  /\ Idle(k)
  /\ sockets' = CloseSockets({cdpWebSocket} \ {0})
  /\ inflight' = DropReplies({cdpWebSocket} \ {0})
  /\ cdpWebSocket' = 0
  /\ IF browserServer # 0
     THEN /\ calls' = [calls EXCEPT ![k] =
                         [IdleCall EXCEPT !.op = "stop", !.pc = "close", !.b = browserServer]]
          /\ UNCHANGED <<isMonitoring, cdpWebSocketUrl>>
          /\ UNCHANGED reply
     ELSE /\ isMonitoring' = StopReset.isMonitoring
          /\ cdpWebSocketUrl' = StopReset.cdpWebSocketUrl
          /\ reply' = Stopped
          /\ UNCHANGED calls
  /\ UNCHANGED <<networkBuffer, browserServer, browsers, pendingRequests, nextUuid,
                 nextWs, nextBrowser, idHist, promoLog>>

\* await this.browserServer.close() returns; the rest of stopMonitor
StopBrowserClosed(k) ==
  /\ At(k, "stop", "close")
  /\ browsers' = browsers \ {calls[k].b}
  /\ sockets' = CloseSockets(SocketsOf(calls[k].b))
  /\ inflight' = DropReplies(SocketsOf(calls[k].b))
  /\ browserServer' = 0
  /\ isMonitoring' = StopReset.isMonitoring
  /\ cdpWebSocketUrl' = StopReset.cdpWebSocketUrl
  /\ calls' = Return(k)
  /\ UNCHANGED <<networkBuffer, cdpWebSocket, pendingRequests, nextUuid, nextWs,
                 nextBrowser, idHist, promoLog>>
  /\ reply' = Stopped

\* ---------------------------------------------------------- updateFilter
UpdateGuardNever == FALSE

\* if (!this.isMonitoring || !this.cdpWebSocket) throw
UpdateGuard == ~isMonitoring \/ cdpWebSocket = 0

\* the guard of updateFilter throws
UpdateRejected(k) ==
  /\ Idle(k)
  /\ UpdateGuard
  /\ reply' = NotActive
  /\ UNCHANGED <<isMonitoring, cdpWebSocketUrl, networkBuffer, cdpWebSocket,
                 browserServer, sockets, browsers, pendingRequests, inflight,
                 nextUuid, nextWs, nextBrowser, calls, idHist, promoLog>>

\* the filter schema of updateFilter accepts a filter of the declared shape
filterSchema(wellFormed) == wellFormed

\* past the guard, filterSchema.parse throws
UpdateInvalid(k, wellFormed) ==
  /\ Idle(k)
  /\ ~UpdateGuard
  /\ ~filterSchema(wellFormed)
  /\ reply' = InvalidArguments
  /\ UNCHANGED <<isMonitoring, cdpWebSocketUrl, networkBuffer, cdpWebSocket,
                 browserServer, sockets, browsers, pendingRequests, inflight,
                 nextUuid, nextWs, nextBrowser, calls, idHist, promoLog>>

\* networkBuffer.length = 0; cdpWebSocket.close(); await connectToCdp(url).
\* The parsed filter is read again only by UpdateConnected, which draws it.
UpdateBegin(k) ==
  /\ Idle(k)
  /\ ~UpdateGuard
  /\ networkBuffer' = <<>>
  /\ promoLog' = <<>>
  /\ sockets' = CloseSockets({cdpWebSocket})
  /\ inflight' = DropReplies({cdpWebSocket})
  /\ calls' = [calls EXCEPT ![k] =
                 [op |-> "update", pc |-> "connect", b |-> cdpWebSocketUrl,
                  had |-> Len(networkBuffer),
                  cap |-> IF cdpWebSocket \in WsIds THEN sockets[cdpWebSocket].max ELSE 0]]
  /\ idHist' = [c \in Ids |-> "unseen"]
  /\ UNCHANGED <<isMonitoring, cdpWebSocketUrl, cdpWebSocket, browserServer, browsers,
                 pendingRequests, nextUuid, nextWs, nextBrowser>>
  /\ UNCHANGED reply

\* this.cdpWebSocket = await connectToCdp(url); await startNetworkMonitoring(
\* ws, networkBuffer, filter, 20)
UpdateConnected(k, filter) ==
  /\ At(k, "update", "connect")
  /\ calls[k].b \in browsers
  /\ nextWs <= MaxWs
  /\ sockets' = [sockets EXCEPT ![nextWs] =
                   Monitored(calls[k].b, filter, UpdateBufferSize, FALSE)]
  /\ cdpWebSocket' = nextWs
  /\ nextWs' = nextWs + 1
  /\ calls' = Return(k)
  /\ UNCHANGED <<isMonitoring, cdpWebSocketUrl, networkBuffer, browserServer, browsers,
                 pendingRequests, inflight, nextUuid, nextBrowser, idHist, promoLog>>
  /\ reply' = Updated

\* connectToCdp rejects: updateFilter throws
UpdateFailed(k) ==
  /\ At(k, "update", "connect")
  /\ calls' = Return(k)
  /\ UNCHANGED <<isMonitoring, cdpWebSocketUrl, networkBuffer, cdpWebSocket,
                 browserServer, sockets, browsers, pendingRequests, inflight,
                 nextUuid, nextWs, nextBrowser, idHist, promoLog>>
  /\ reply' = UpdateError

\* ------------------------------------------------------ the query layer
\* In the query specification a record carries every field the queries read:
\* headers, timestamp and the request body besides those above.  A string is
\* given by its content: the first len characters of the text called text,
\* followed, when note is present, by the truncation marker
\* "\n... [truncated from N bytes]" with N = note[1].  The texts are named by
\* the number of characters they have.
Text(n) == [text |-> n, len |-> n, note |-> None]

\* the number of decimal digits of n
RECURSIVE Digits(_)
Digits(n) == IF n < 10 THEN 1 ELSE 1 + Digits(n \div 10)

\* the length of "\n... [truncated from " and of " bytes]"
MarkerHead == 21
MarkerTail == 7

\* String.prototype.length
StrLen(s) ==
  s.len + (IF s.note = None THEN 0 ELSE MarkerHead + Digits(s.note[1]) + MarkerTail)

WholeString(s, n) == s

\* String.prototype.substring(0, n); a marker follows at least MAX_BODY_SIZE
\* characters, and no caller cuts beyond them
Substring(s, n) ==
  IF n >= StrLen(s) THEN s ELSE [text |-> s.text, len |-> IF n < s.len THEN n ELSE s.len,
                                 note |-> None]

\* JavaScript truthiness of an optional string
StrTruthy(o) == o # None /\ StrLen(o[1]) > 0

MAX_BODY_SIZE == 51200
PreviewSize == 512

\* if (body && body.length > MAX_BODY_SIZE)
\*   body = body.substring(0, MAX_BODY_SIZE) + `\n... [truncated from ${originalSize} bytes]`
Capped(o) ==
  IF StrTruthy(o) /\ StrLen(o[1]) > MAX_BODY_SIZE
  THEN Some([Substring(o[1], MAX_BODY_SIZE) EXCEPT !.note = Some(StrLen(o[1]))])
  ELSE o

\* [...buffer].sort((a, b) => b.timestamp - a.timestamp): Array.prototype.sort
\* is stable, so r goes behind the records that are not older than it
SortedInsert(sorted, r) ==
  LET older == {i \in 1..Len(sorted) : sorted[i].timestamp < r.timestamp}
      p == IF older = {} THEN Len(sorted) + 1
           ELSE CHOOSE i \in older : \A j \in older : i <= j
  IN  SubSeq(sorted, 1, p - 1) \o <<r>> \o SubSeq(sorted, p, Len(sorted))

Unsorted(buffer) == buffer

RECURSIVE SortNewestFirst(_)
SortNewestFirst(buffer) ==
  IF buffer = <<>> THEN <<>>
  ELSE SortedInsert(SortNewestFirst(SubSeq(buffer, 1, Len(buffer) - 1)),
                    buffer[Len(buffer)])

\* Array.prototype.slice(0, count) for an integer count: a negative count is
\* taken from the end of the array
Slice(s, count) ==
  LET end == IF count < 0 THEN (IF Len(s) + count < 0 THEN 0 ELSE Len(s) + count)
             ELSE IF count < Len(s) THEN count ELSE Len(s)
  IN  SubSeq(s, 1, end)

\* the CompactNetworkRequest built for one record
Compact(req) ==
  LET fromResponse == req.response # None /\ StrTruthy(req.response[1].body)
      fromRequest == ~fromResponse /\ StrTruthy(req.body)
      source == IF fromResponse THEN req.response[1].body
                ELSE IF fromRequest THEN req.body ELSE None
  IN  [uuid |-> req.uuid, method |-> req.method, url |-> req.url,
       timestamp |-> req.timestamp,
       mimeType |-> IF req.response # None THEN Some(req.response[1].mimeType) ELSE None,
       bodyPreview |-> IF source # None THEN Some(Substring(source[1], PreviewSize))
                       ELSE None,
       bodySize |-> IF source # None THEN Some(StrLen(source[1])) ELSE None]

\* get_recent_requests: the response object that is serialised
getRecentRequests(buffer, count) ==
  LET limitedRequests == Slice(SortNewestFirst(buffer), count)
  IN  [kind |-> "recent", total_captured |-> Len(buffer),
       showing |-> Len(limitedRequests),
       requests |-> [i \in 1..Len(limitedRequests) |-> Compact(limitedRequests[i])]]

GetRecentRequests(count, include_headers) ==
  /\ reply' = getRecentRequests(networkBuffer, count)
  /\ UNCHANGED <<isMonitoring, cdpWebSocketUrl, networkBuffer, cdpWebSocket,
                 browserServer, sockets, browsers, pendingRequests, inflight,
                 nextUuid, nextWs, nextBrowser, calls, idHist, promoLog>>

FindFirstRecord(buffer, uuid) == IF buffer = <<>> THEN 0 ELSE 1

\* buffer.find((req) => req.uuid === uuid): the first match, 0 when none
FindIndexByUuid(buffer, uuid) ==
  IF \E i \in 1..Len(buffer) : buffer[i].uuid = uuid
  THEN CHOOSE i \in 1..Len(buffer) :
         buffer[i].uuid = uuid /\ \A j \in 1..(i - 1) : buffer[j].uuid # uuid
  ELSE 0

NotFound(uuid) == [kind |-> "Request not found", uuid |-> uuid]
DetailError == [kind |-> "Failed to get request detail"]

\* requestCopy = { ...request } is a shallow copy: requestCopy.response is the
\* stored response object unless headers are stripped, which copies it first
SharesResponse(include_headers) == include_headers

\* the object get_request_detail serialises for the stored record request
Detail(request, include_headers) ==
  [request EXCEPT
     !.headers = IF include_headers THEN @ ELSE None,
     !.body = Capped(@),
     !.response = IF @ = None THEN None
                  ELSE Some([@[1] EXCEPT
                               !.headers = IF include_headers THEN @ ELSE None,
                               !.body = Capped(@)])]

\* get_request_detail; uuid 0 stands for a string that is not a UUID
GetRequestDetail(uuid, include_headers) ==
  /\ LET i == FindIndexByUuid(networkBuffer, uuid)
     IN  IF uuid = 0
         THEN reply' = DetailError /\ UNCHANGED networkBuffer
         ELSE IF i = 0
         THEN reply' = NotFound(uuid) /\ UNCHANGED networkBuffer
         ELSE LET requestCopy == Detail(networkBuffer[i], include_headers)
              IN  /\ reply' = [kind |-> "detail", request |-> requestCopy]
                  /\ networkBuffer' =
                       IF SharesResponse(include_headers) /\ requestCopy.response # None
                       THEN [networkBuffer EXCEPT
                               ![i].response =
                                  Some([@[1] EXCEPT !.body = requestCopy.response[1].body])]
                       ELSE networkBuffer
  /\ UNCHANGED <<isMonitoring, cdpWebSocketUrl, cdpWebSocket, browserServer, sockets,
                 browsers, pendingRequests, inflight, nextUuid, nextWs, nextBrowser,
                 calls, idHist, promoLog>>

\* ------------------------------------------------------- specifications
Init ==
  /\ isMonitoring = FALSE
  /\ cdpWebSocketUrl = 0
  /\ networkBuffer = <<>>
  /\ cdpWebSocket = 0
  /\ browserServer = 0
  /\ sockets = [w \in WsIds |-> NoSocket]
  /\ browsers = {}
  /\ pendingRequests = [c \in Ids |-> None]
  /\ inflight = <<>>
  /\ nextUuid = 1
  /\ nextWs = 1
  /\ nextBrowser = 1
  /\ calls = [k \in Slots |-> IdleCall]
  /\ idHist = [c \in Ids |-> "unseen"]
  /\ promoLog = <<>>
  /\ reply = NoReply

Events ==
  \E w \in WsIds :
    \/ \E id \in Ids, r \in Requests : RequestObserved(w, id, r[1], r[2])
    \/ \E id \in Ids, mime \in ResponseMimes : ResponseObserved(w, id, mime)
    \/ \E k \in 1..MaxInflight, empty \in BOOLEAN, cmd \in CmdIds :
         BodyFetched(w, k, empty, cmd)
    \/ \E k \in 1..MaxInflight : BodyFetchFailed(w, k)

\* one step of the tool call in slot k
Tool(k) ==
  \/ StartBegin(k)
  \/ StartBrowserClosed(k)
  \/ StartLaunched(k)
  \/ StartListed(k)
  \/ StartFailed(k)
  \/ \E filter \in SessionFilters, max \in Caps : StartConnected(k, filter, max)
  \/ StopBegin(k)
  \/ StopBrowserClosed(k)
  \/ UpdateRejected(k)
  \/ UpdateBegin(k)
  \/ \E filter \in SessionFilters : UpdateConnected(k, filter)
  \/ UpdateFailed(k)

Tools == \E k \in Slots : Tool(k)

Next == Events \/ Tools

Spec == Init /\ [][Next]_vars

\* the session whose callers also pass arguments that the schemas reject
Rejected(k) ==
  \/ \E max \in BufferSizes, wellFormed \in BOOLEAN : StartRejected(k, max, wellFormed)
  \/ \E wellFormed \in BOOLEAN : UpdateInvalid(k, wellFormed)

\* get_request_detail called with a uuid that is not a UUID
DetailRejected == \E include_headers \in BOOLEAN : GetRequestDetail(0, include_headers)

NextArgs == Events \/ Tools \/ (\E k \in Slots : Rejected(k)) \/ DetailRejected

SpecArgs == Init /\ [][NextArgs]_vars

\* startNetworkMonitoring called with a pendingRequests Map on one open socket
InitStore ==
  /\ isMonitoring = FALSE
  /\ cdpWebSocketUrl = 0
  /\ networkBuffer = <<>>
  /\ cdpWebSocket = 0
  /\ browserServer = 0
  /\ \E filter \in SessionFilters, max \in Caps :
       sockets = [w \in WsIds |-> IF w = 1 THEN Monitored(1, filter, max, TRUE)
                                  ELSE NoSocket]
  /\ browsers = {1}
  /\ pendingRequests = [c \in Ids |-> None]
  /\ inflight = <<>>
  /\ nextUuid = 1
  /\ nextWs = 2
  /\ nextBrowser = 2
  /\ calls = [k \in Slots |-> IdleCall]
  /\ idHist = [c \in Ids |-> "unseen"]
  /\ promoLog = <<>>
  /\ reply = NoReply

NextStore == Events

SpecStore == InitStore /\ [][NextStore]_vars

\* the session with two tool calls that may overlap at their await points
InitConc ==
  /\ isMonitoring = FALSE
  /\ cdpWebSocketUrl = 0
  /\ networkBuffer = <<>>
  /\ cdpWebSocket = 0
  /\ browserServer = 0
  /\ sockets = [w \in WsIds |-> NoSocket]
  /\ browsers = {}
  /\ pendingRequests = [c \in Ids |-> None]
  /\ inflight = <<>>
  /\ nextUuid = 1
  /\ nextWs = 1
  /\ nextBrowser = 1
  /\ calls = [k \in ConcSlots |-> IdleCall]
  /\ idHist = [c \in Ids |-> "unseen"]
  /\ promoLog = <<>>
  /\ reply = NoReply

ToolsConc == \E k \in ConcSlots : Tool(k)

\* the requests the page issues meanwhile
EventsConc ==
  \E w \in WsIds, id \in Ids, r \in Requests : RequestObserved(w, id, r[1], r[2])

NextConc == EventsConc \/ ToolsConc

SpecConc == InitConc /\ [][NextConc]_vars

\* the query layer over the buffers a session can have left behind
Headers == Some(<<"accept">>)

RequestBodies == {None, Some(Text(3)), Some(Text(MAX_BODY_SIZE)), Some(Text(70000))}

ResponseBodies ==
  {None, Some(Text(0)), Some(Text(MAX_BODY_SIZE)), Some(Text(MAX_BODY_SIZE + 1)),
   Some(Text(70000))}

Responses ==
  {None} \cup {Some([mimeType |-> Some(MimeJson), headers |-> Headers, body |-> b]) :
                 b \in ResponseBodies}

\* the stored record with uuid u, timestamp t, request body b and response r
StoredRequest(u, t, b, r) ==
  [id |-> 1, uuid |-> u, url |-> UrlApi, method |-> "GET", headers |-> Headers,
   timestamp |-> t, body |-> b, response |-> r]

Buffers ==
  UNION {{[i \in 1..n |-> StoredRequest(i, f[i][1], f[i][2], f[i][3])] :
            f \in [1..n -> (1..MaxTime) \X RequestBodies \X Responses]} :
         n \in 0..MaxBuf}

InitQuery ==
  /\ isMonitoring = FALSE
  /\ cdpWebSocketUrl = 0
  /\ networkBuffer \in Buffers
  /\ cdpWebSocket = 0
  /\ browserServer = 0
  /\ sockets = [w \in WsIds |-> NoSocket]
  /\ browsers = {}
  /\ pendingRequests = [c \in Ids |-> None]
  /\ inflight = <<>>
  /\ nextUuid = Len(networkBuffer) + 1
  /\ nextWs = 1
  /\ nextBrowser = 1
  /\ calls = [k \in Slots |-> IdleCall]
  /\ idHist = [c \in Ids |-> "unseen"]
  /\ promoLog = <<>>
  /\ reply = NoReply

\* the counts a caller passes: z.number() accepts negative ones
Counts == (-1)..(MaxBuf + 1)

NextQuery ==
  \/ \E count \in Counts, include_headers \in BOOLEAN :
       GetRecentRequests(count, include_headers)
  \/ \E uuid \in 0..(MaxBuf + 1), include_headers \in BOOLEAN :
       GetRequestDetail(uuid, include_headers)

SpecQuery == InitQuery /\ [][NextQuery]_vars

\* the single-in-flight-fetch pattern: no record is promoted while the reply to
\* an earlier Network.getResponseBody is outstanding
EventsSingle ==
  \E w \in WsIds :
    \/ \E id \in Ids, r \in Requests : RequestObserved(w, id, r[1], r[2])
    \/ \E id \in Ids, mime \in ResponseMimes :
         ResponseObserved(w, id, mime) /\ (inflight # <<>> => inflight' = inflight)
    \/ \E k \in 1..MaxInflight, empty \in BOOLEAN, cmd \in CmdIds :
         BodyFetched(w, k, empty, cmd)
    \/ \E k \in 1..MaxInflight : BodyFetchFailed(w, k)

NextSingle == EventsSingle \/ Tools

SpecSingle == Init /\ [][NextSingle]_vars

\* the session whose channel also delivers malformed messages
Malformed ==
  \E w \in WsIds, shape \in MalformedShapes, r \in Requests :
    MalformedObserved(w, shape, r[1], r[2])

NextMalformed == Events \/ Tools \/ Malformed

SpecMalformed == Init /\ [][NextMalformed]_vars

\* the filter engine on its own: the FilterConfig values a caller can pass
ContentTypeLists == {<<>>, <<MimeJson>>, <<MimeHtml, MimeJson>>, << <<>> >>}

PatternLists ==
  {<<>>, <<[valid |-> FALSE, lit |-> <<"(">>]>>,
   <<[valid |-> FALSE, lit |-> <<"(">>], [valid |-> TRUE, lit |-> <<"api">>]>>,
   <<[valid |-> TRUE, lit |-> <<"static">>]>>}

MethodLists == {<<>>, <<"GET">>, <<"GET", "POST">>}

FilterConfigs ==
  {f \in [ctAll : BOOLEAN, cts : ContentTypeLists, urlAll : BOOLEAN, pats : PatternLists,
          hasMethods : BOOLEAN, methods : MethodLists] :
     /\ f.ctAll => f.cts = <<>>
     /\ f.urlAll => f.pats = <<>>
     /\ ~f.hasMethods => f.methods = <<>>}

\* the arguments of a call of the filter engine
FilterCalls ==
  [kind : {"arguments"}, contentType : Mimes, url : Urls, method : Methods,
   filter : FilterConfigs]

\* reply holds the arguments and, after the call, the arguments with the result
InitFilter ==
  /\ isMonitoring = FALSE
  /\ cdpWebSocketUrl = 0
  /\ networkBuffer = <<>>
  /\ cdpWebSocket = 0
  /\ browserServer = 0
  /\ sockets = [w \in WsIds |-> NoSocket]
  /\ browsers = {}
  /\ pendingRequests = [c \in Ids |-> None]
  /\ inflight = <<>>
  /\ nextUuid = 1
  /\ nextWs = 1
  /\ nextBrowser = 1
  /\ calls = [k \in Slots |-> IdleCall]
  /\ idHist = [c \in Ids |-> "unseen"]
  /\ promoLog = <<>>
  /\ reply \in FilterCalls

\* shouldIncludeRequest(contentType, filter)
PassesLate ==
  /\ reply.kind = "arguments"
  /\ reply' = [kind |-> "shouldIncludeRequest", contentType |-> reply.contentType,
               filter |-> reply.filter,
               result |-> shouldIncludeRequest(reply.contentType, reply.filter)]
  /\ UNCHANGED <<isMonitoring, cdpWebSocketUrl, networkBuffer, cdpWebSocket,
                 browserServer, sockets, browsers, pendingRequests, inflight,
                 nextUuid, nextWs, nextBrowser, calls, idHist, promoLog>>

\* shouldIncludeRequestByUrlAndMethod(url, method, filter)
PassesEarly ==
  /\ reply.kind = "arguments"
  /\ reply' = [kind |-> "shouldIncludeRequestByUrlAndMethod", url |-> reply.url,
               method |-> reply.method, filter |-> reply.filter,
               result |-> shouldIncludeRequestByUrlAndMethod(reply.url, reply.method,
                                                             reply.filter)]
  /\ UNCHANGED <<isMonitoring, cdpWebSocketUrl, networkBuffer, cdpWebSocket,
                 browserServer, sockets, browsers, pendingRequests, inflight,
                 nextUuid, nextWs, nextBrowser, calls, idHist, promoLog>>

NextFilter == PassesLate \/ PassesEarly

SpecFilter == InitFilter /\ [][NextFilter]_vars

\* ----------------------------------------------------------------- claims
\* the session is monitoring through the listener of its current socket
Active == isMonitoring /\ cdpWebSocket # 0 /\ Listening(cdpWebSocket)

BufferUuids == [i \in 1..Len(networkBuffer) |-> networkBuffer[i].uuid]

PendingUuids == {r.uuid : r \in PendingRecords}

\* records of request id that still await their response
Awaiting(id) ==
  {r \in PendingRecords : r.id = id}
    \cup {networkBuffer[i] : i \in {j \in 1..Len(networkBuffer) :
                                      networkBuffer[j].id = id
                                      /\ networkBuffer[j].response = None}}

\* C1: while the session monitors, the Buffer holds at most as many records as
\* the maxBufferSize of the listener in force.
C1_BufferBound ==
  Active => Len(networkBuffer) <= sockets[cdpWebSocket].max

\* C2: once more records than maxBufferSize have been promoted since the Buffer
\* was last cleared, the Buffer is exactly the last maxBufferSize promoted
\* records, in promotion order.
C2_FifoRetention ==
  LET cap == sockets[cdpWebSocket].max
      n == Len(promoLog)
  IN  (Active /\ n > cap) => BufferUuids = SubSeq(promoLog, n - cap + 1, n)

\* C3: every record in the Buffer has a response, and its mimeType passes the
\* content-type filter of the active configuration.
C3_BufferOnlyFiltered ==
  \A i \in 1..Len(networkBuffer) :
    /\ networkBuffer[i].response # None
    /\ Active => shouldIncludeRequest(networkBuffer[i].response[1].mimeType,
                                      sockets[cdpWebSocket].filter)

C5_LateRejectedDiscarded ==
  [][\A w \in WsIds, id \in Ids, mime \in ResponseMimes :
       (/\ ResponseObserved(w, id, mime)
        /\ idHist[id] = "accepted"
        /\ ~shouldIncludeRequest(mime, sockets[w].filter))
       => /\ \A i \in 1..Len(networkBuffer') :
               networkBuffer'[i].id = id => networkBuffer'[i].response # None
          /\ pendingRequests'[id] = None
          /\ inflight' = inflight]_vars

\* C6: when the response of a request that passed the early filter passes the
\* content-type filter, the Buffer afterwards holds exactly one record of that
\* request id with the merged response (the awaiting record, url and method
\* kept), the record is not pending, and one body-fetch command for that id
\* has been sent.
C6_Promotion ==
  [][\A w \in WsIds, id \in Ids, mime \in ResponseMimes :
       (/\ ResponseObserved(w, id, mime)
        /\ idHist[id] = "accepted"
        /\ shouldIncludeRequest(mime, sockets[w].filter))
       => LET merged == {i \in 1..Len(networkBuffer') :
                           /\ networkBuffer'[i].id = id
                           /\ networkBuffer'[i].response # None
                           /\ networkBuffer'[i].response[1].mimeType = mime}
          IN  /\ Cardinality(merged) = 1
              /\ \A i \in merged :
                   \E r \in Awaiting(id) : networkBuffer'[i] = WithResponse(r, mime)
              /\ pendingRequests'[id] = None
              /\ Len(inflight') = Len(inflight) + 1
              /\ SubSeq(inflight', 1, Len(inflight)) = inflight
              /\ inflight'[Len(inflight')].id = id]_vars

\* C7: a response-observed event for a request id that is not pending changes
\* neither PendingSet nor Buffer and sends no body-fetch command.
C7_UnknownResponseNoOp ==
  [][\A w \in WsIds, id \in Ids, mime \in ResponseMimes :
       (ResponseObserved(w, id, mime) /\ idHist[id] # "accepted")
       => UNCHANGED <<networkBuffer, pendingRequests, inflight>>]_vars

\* a record leaves PendingSet on the response-observed event of its request id,
\* moved into the Buffer or dropped
LeftByResponse(u) ==
  \E w \in WsIds, id \in Ids, mime \in ResponseMimes :
    /\ ResponseObserved(w, id, mime)
    /\ pendingRequests[id] # None
    /\ pendingRequests[id][1].uuid = u
    /\ \/ networkBuffer' = networkBuffer
       \/ networkBuffer' = PushShift(networkBuffer,
                                     WithResponse(pendingRequests[id][1], mime),
                                     sockets[w].max)

\* a record leaves PendingSet because a later accepted request-observed event
\* with the same request id takes its place
ReplacedByRequest(u) ==
  \E w \in WsIds, id \in Ids, r \in Requests :
    /\ RequestObserved(w, id, r[1], r[2])
    /\ pendingRequests[id] # None
    /\ pendingRequests[id][1].uuid = u
    /\ pendingRequests'[id] # None
    /\ pendingRequests'[id][1].uuid = nextUuid
    /\ networkBuffer' = networkBuffer

\* no record is in PendingSet and Buffer at once; a record enters PendingSet only
\* when it is created
PendingDiscipline ==
  /\ PendingUuids' \cap {networkBuffer'[i].uuid : i \in 1..Len(networkBuffer')} = {}
  /\ \A u \in PendingUuids' \ PendingUuids : u = nextUuid

PromoRank(u) ==
  IF \E i \in 1..Len(promoLog) : promoLog[i] = u
  THEN CHOOSE i \in 1..Len(promoLog) : promoLog[i] = u
  ELSE 0

\* the promoted Buffer records that have no body yet
WithoutBody ==
  {i \in 1..Len(networkBuffer) :
     networkBuffer[i].response # None /\ networkBuffer[i].response[1].body = None}

\* C9: a body-fetched event sets the body of the most recently promoted Buffer
\* record that has no body yet and changes nothing else; with no such record it
\* changes nothing.
C9_AttachBody ==
  [][\A w \in WsIds, k \in 1..MaxInflight, empty \in BOOLEAN :
       BodyFetched(w, k, empty, 2)
       => IF WithoutBody = {} THEN networkBuffer' = networkBuffer
          ELSE LET t == CHOOSE i \in WithoutBody :
                          \A j \in WithoutBody :
                            PromoRank(networkBuffer[j].uuid) <= PromoRank(networkBuffer[i].uuid)
               IN  networkBuffer' =
                     [networkBuffer EXCEPT
                        ![t] = WithBody(@, [src |-> inflight[k].src, empty |-> empty])]]_vars

\* C10: under the single-in-flight-fetch pattern every body-fetched event sets
\* the body of the record whose promotion sent the fetch, and of no other.
C10_SingleInFlightExact ==
  [][\A w \in WsIds, k \in 1..MaxInflight, empty \in BOOLEAN :
       BodyFetched(w, k, empty, 2)
       => \E i \in 1..Len(networkBuffer) :
            /\ networkBuffer[i].uuid = inflight[k].src
            /\ networkBuffer' =
                 [networkBuffer EXCEPT
                    ![i] = WithBody(@, [src |-> inflight[k].src, empty |-> empty])]]_vars

\* no tool call is suspended at an await
AllIdle == \A k \in DOMAIN calls : Idle(k)

\* C11: when updateFilter completes, PendingSet and Buffer are empty; from then
\* on, while the reconfigured session monitors, every Buffer record is of a
\* request that the new filter accepted, and its response, if observed, passes
\* the new content-type filter.
C11_ReconfigureClears ==
  /\ [][\A k \in DOMAIN calls, filter \in SessionFilters :
          UpdateConnected(k, filter)
          => networkBuffer' = <<>> /\ PendingRecords' = {}]_vars
  /\ [](reply = Updated /\ AllIdle /\ Active
        => \A i \in 1..Len(networkBuffer) :
             LET rec == networkBuffer[i]
                 filter == sockets[cdpWebSocket].filter
             IN  /\ shouldIncludeRequestByUrlAndMethod(rec.url, rec.method, filter)
                 /\ rec.response # None
                    => shouldIncludeRequest(rec.response[1].mimeType, filter))

\* C12: once stop has returned and until the next start, PendingSet and Buffer
\* are empty.
C12_StopDiscards ==
  (reply = Stopped /\ AllIdle /\ ~isMonitoring)
    => networkBuffer = <<>> /\ PendingRecords = {}

\* the open connections whose listener writes into the session's Buffer
Listeners == {w \in WsIds : Listening(w)}

\* C13: at most one open connection has a listener writing into the Buffer,
\* whatever the interleaving of the tool calls; once stop has returned and no
\* call is in progress, no connection is open.
C13_SingleListener ==
  /\ Cardinality(Listeners) <= 1
  /\ (reply = Stopped /\ AllIdle) => \A w \in WsIds : sockets[w].state # "open"

\* C14: after a start that failed, with no call in progress, the session holds no
\* browser-server handle, no connection is open and the session is not marked
\* as monitoring.
C14_FailedStartLeavesNothing ==
  (reply = StartError /\ AllIdle)
    => /\ browserServer = 0
       /\ \A w \in WsIds : sockets[w].state # "open"
       /\ ~isMonitoring

\* the fields of the session and everything they refer to
Session ==
  <<isMonitoring, cdpWebSocketUrl, networkBuffer, cdpWebSocket, browserServer,
    sockets, browsers, pendingRequests, inflight>>

\* C15: while the session is not monitoring no call of updateFilter gets past
\* the guard, and the rejected call throws the not-active error and leaves
\* Buffer, filter, connection and flag as they were.
C15_UpdateWhenIdleRejected ==
  [][/\ ~isMonitoring => \A k \in DOMAIN calls : calls'[k].op # "update"
     /\ \A k \in DOMAIN calls :
          (~isMonitoring /\ UpdateRejected(k))
          => reply' = NotActive /\ UNCHANGED Session]_vars

C15_Witness ==
  /\ reply = NotActive
  /\ ~isMonitoring
  /\ networkBuffer # <<>>
  /\ cdpWebSocket = 0

\* the session as stopMonitor leaves it
AsStopped ==
  ~isMonitoring /\ cdpWebSocket = 0 /\ browserServer = 0 /\ cdpWebSocketUrl = 0

\* C16: stop can be called in every state in which no call is in progress and
\* every stop returns the same status; after it has returned the session is
\* stopped, and a second stop right after it leaves the session exactly as the
\* first one left it.
C16_StopIdempotent ==
  /\ [](\A k \in DOMAIN calls : Idle(k) => ENABLED StopBegin(k))
  /\ []((reply = Stopped /\ AllIdle) => AsStopped)
  /\ [][\A k \in DOMAIN calls :
          /\ (StopBegin(k) \/ StopBrowserClosed(k)) /\ Idle(k)' => reply' = Stopped
          /\ (StopBegin(k) /\ reply = Stopped /\ AllIdle)
             => reply' = Stopped /\ AllIdle' /\ UNCHANGED Session]_vars

C16_Witness ==
  /\ reply = Stopped
  /\ AllIdle
  /\ AsStopped
  /\ networkBuffer # <<>>
  /\ \E w \in WsIds : sockets[w].state = "closed"

\* C17: a get_recent_requests or get_request_detail call, whatever its
\* arguments, leaves the Buffer and every stored record as they were.
C17_QueriesReadOnly ==
  [][\A n \in 0..(MaxBuf + 1), include_headers \in BOOLEAN :
       (GetRecentRequests(n, include_headers) \/ GetRequestDetail(n, include_headers))
       => networkBuffer' = networkBuffer]_vars

\* record q of the buffer comes before record p in the listing: it is newer, or
\* as old and inserted earlier
ListedBefore(buffer, q, p) ==
  \/ buffer[q].timestamp > buffer[p].timestamp
  \/ buffer[q].timestamp = buffer[p].timestamp /\ q < p

\* the buffer position of the i-th record of the listing
Listed(buffer, i) ==
  CHOOSE p \in 1..Len(buffer) :
    Cardinality({q \in 1..Len(buffer) : ListedBefore(buffer, q, p)}) = i - 1

\* C18: get_recent_requests with count n returns the first n records of the
\* Buffer ordered by timestamp, newest first, records with equal timestamps in
\* Buffer order; the Buffer itself keeps its order.
C18_ListRecentNewestFirst ==
  [][\A n \in 0..(MaxBuf + 1), include_headers \in BOOLEAN :
       GetRecentRequests(n, include_headers)
       => /\ reply'.kind = "recent"
          /\ reply'.total_captured = Len(networkBuffer)
          /\ reply'.showing = Len(reply'.requests)
          /\ Len(reply'.requests) = (IF n < Len(networkBuffer) THEN n
                                     ELSE Len(networkBuffer))
          /\ \A i \in 1..Len(reply'.requests) :
               LET rec == networkBuffer[Listed(networkBuffer, i)]
               IN  /\ reply'.requests[i].uuid = rec.uuid
                   /\ reply'.requests[i].timestamp = rec.timestamp
          /\ networkBuffer' = networkBuffer]_vars

C18_Witness ==
  /\ reply.kind = "recent"
  /\ Len(networkBuffer) = 2
  /\ networkBuffer[1].timestamp < networkBuffer[2].timestamp
  /\ reply.total_captured = 2
  /\ reply.showing = 1
  /\ reply.requests[1].uuid = networkBuffer[2].uuid

\* what get_request_detail is to return for a body as it was captured: the text
\* itself up to MAX_BODY_SIZE characters, else its first MAX_BODY_SIZE characters
\* and the marker stating the length of the text
CappedCapture(o) ==
  IF o = None THEN None
  ELSE IF o[1].text <= MAX_BODY_SIZE THEN Some(Text(o[1].text))
  ELSE Some([text |-> o[1].text, len |-> MAX_BODY_SIZE, note |-> Some(o[1].text)])

\* C19: get_request_detail returns the request body and the response body of the
\* record each capped on its own: unchanged up to 51200 characters, else the
\* first 51200 characters followed by the marker that states the length of the
\* body as captured.
C19_DetailBodyCap ==
  [][\A uuid \in 1..MaxBuf, include_headers \in BOOLEAN :
       (GetRequestDetail(uuid, include_headers)
        /\ FindIndexByUuid(networkBuffer, uuid) # 0)
       => LET rec == networkBuffer[FindIndexByUuid(networkBuffer, uuid)]
          IN  /\ reply'.kind = "detail"
              /\ reply'.request.body = CappedCapture(rec.body)
              /\ rec.response # None
                 => reply'.request.response[1].body = CappedCapture(rec.response[1].body)]_vars

Fields(r) == DOMAIN r

\* C21: get_recent_requests with include_headers = true returns every record
\* with its request headers and, when it has a response, the response headers;
\* with include_headers = false it returns neither.
C21_ListRecentHeaders ==
  [][\A n \in 0..(MaxBuf + 1), include_headers \in BOOLEAN :
       GetRecentRequests(n, include_headers)
       => \A i \in 1..Len(reply'.requests) :
            LET r == reply'.requests[i]
                rec == networkBuffer[Listed(networkBuffer, i)]
            IN  IF include_headers
                THEN /\ "headers" \in Fields(r)
                     /\ r.headers = rec.headers
                     /\ rec.response # None
                        => /\ "responseHeaders" \in Fields(r)
                           /\ r.responseHeaders = rec.response[1].headers
                ELSE \A f \in {"headers", "responseHeaders"} :
                       f \in Fields(r) => r[f] = None]_vars

\* the body a returned record summarises: the response body when the record has
\* a non-empty one, else the request body when that is non-empty
Summarised(rec) ==
  IF rec.response # None /\ StrTruthy(rec.response[1].body) THEN rec.response[1].body
  ELSE IF StrTruthy(rec.body) THEN rec.body
  ELSE None

\* C22: in every record get_recent_requests returns, the body preview is the
\* first 512 characters of the body it summarises, the whole body when that is
\* shorter, and the body size is the length of that body; a record with no body
\* to summarise has neither.
C22_PreviewAndSize ==
  [][\A n \in 0..(MaxBuf + 1), include_headers \in BOOLEAN :
       GetRecentRequests(n, include_headers)
       => \A i \in 1..Len(reply'.requests) :
            LET r == reply'.requests[i]
                body == Summarised(networkBuffer[Listed(networkBuffer, i)])
            IN  IF body = None
                THEN r.bodyPreview = None /\ r.bodySize = None
                ELSE /\ r.bodyPreview # None
                     /\ StrLen(r.bodyPreview[1]) <= PreviewSize
                     /\ r.bodyPreview[1].text = body[1].text
                     /\ IF StrLen(body[1]) <= PreviewSize
                        THEN r.bodyPreview = body
                        ELSE r.bodyPreview[1].len = PreviewSize
                             /\ r.bodyPreview[1].note = None
                     /\ r.bodySize = Some(StrLen(body[1]))]_vars

C22_Witness ==
  /\ reply.kind = "recent"
  /\ reply.showing = 2
  /\ reply.requests[1].bodySize = Some(70000)
  /\ reply.requests[1].bodyPreview = Some([text |-> 70000, len |-> PreviewSize, note |-> None])
  /\ reply.requests[2].bodySize = Some(3)
  /\ reply.requests[2].bodyPreview = Some(Text(3))

\* C23: for every integer count, total_captured is the number of records in the
\* Buffer, showing is the number of records returned, and showing exceeds
\* neither count nor total_captured.
C23_Counters ==
  [][\A n \in Counts, include_headers \in BOOLEAN :
       GetRecentRequests(n, include_headers)
       => /\ reply'.total_captured = Len(networkBuffer)
          /\ reply'.showing = Len(reply'.requests)
          /\ reply'.showing <= n
          /\ reply'.showing <= reply'.total_captured]_vars

C25_RetainsConnection ==
  [][\A k \in DOMAIN calls, filter \in SessionFilters :
       /\ UpdateBegin(k) => sockets'[cdpWebSocket].state = "open"
       /\ UpdateConnected(k, filter)
          => cdpWebSocket' = cdpWebSocket /\ sockets'[cdpWebSocket'].state = "open"]_vars

\* C25 amended: updateFilter closes the connection in use and, when it
\* succeeds, the connection in use afterwards is a newly opened one to the
\* same endpoint; updateFilter itself leaves the browser handle, the endpoint
\* and the monitoring flag as they were.
C25_ReplacesConnection ==
  [][\A k \in DOMAIN calls, filter \in SessionFilters :
       /\ UpdateBegin(k)
          => /\ sockets'[cdpWebSocket].state = "closed"
             /\ calls'[k].b = cdpWebSocketUrl
             /\ UNCHANGED <<cdpWebSocket, browserServer, cdpWebSocketUrl, isMonitoring>>
       /\ UpdateConnected(k, filter)
          => /\ cdpWebSocket' # cdpWebSocket
             /\ sockets[cdpWebSocket].state = "closed"
             /\ sockets[cdpWebSocket'].state # "open"
             /\ sockets'[cdpWebSocket'].state = "open"
             /\ sockets'[cdpWebSocket'].browser = calls[k].b
             /\ UNCHANGED <<browserServer, cdpWebSocketUrl, isMonitoring>>]_vars

C25_Witness ==
  /\ reply = Updated
  /\ AllIdle
  /\ cdpWebSocket = 2
  /\ sockets[1].state = "closed"
  /\ sockets[2].state = "open"
  /\ sockets[2].browser = browserServer

\* C26: a successful updateFilter leaves in force the capacity that start
\* installed, and the capacity in force is never above 50.
C26_CapacityFixed ==
  /\ [](\A w \in WsIds : sockets[w].state = "open" => sockets[w].max <= MaxBufferSize)
  /\ [][\A k \in DOMAIN calls, filter \in SessionFilters :
          (UpdateConnected(k, filter) /\ calls[k].cap \in Caps)
          => sockets'[cdpWebSocket'].max = calls[k].cap]_vars

\* the start arguments of an invalid shape: max_buffer_size above 50 or a
\* malformed filter
InvalidStart == {a \in BufferSizes \X BOOLEAN : a[1] > 50 \/ ~a[2]}

\* C27: a start call with max_buffer_size above 50 or a malformed filter, an
\* updateFilter call with a malformed filter and a get_request_detail call with
\* an id that is not a UUID are always rejected, and the rejected call leaves
\* Buffer, filter, capacity, connection, browser handle and monitoring flag
\* exactly as they were.
C27_InvalidRejected ==
  /\ [](\A k \in DOMAIN calls :
          Idle(k)
          => /\ \A a \in InvalidStart : ENABLED StartRejected(k, a[1], a[2])
             /\ ~UpdateGuard => ENABLED UpdateInvalid(k, FALSE))
  /\ [][/\ \A k \in DOMAIN calls, a \in BufferSizes \X BOOLEAN :
             StartRejected(k, a[1], a[2])
             => a \in InvalidStart /\ reply' = StartError /\ UNCHANGED Session
        /\ \A k \in DOMAIN calls, wellFormed \in BOOLEAN :
             UpdateInvalid(k, wellFormed)
             => ~wellFormed /\ reply' = InvalidArguments /\ UNCHANGED Session
        /\ DetailRejected => reply' = DetailError /\ UNCHANGED Session]_vars

C27_Witness ==
  /\ reply = InvalidArguments
  /\ AllIdle
  /\ Active
  /\ networkBuffer # <<>>
  /\ sockets[cdpWebSocket].filter = FilterApiGet

LateResult == reply.kind = "shouldIncludeRequest"

EarlyResult == reply.kind = "shouldIncludeRequestByUrlAndMethod"

\* C28: shouldIncludeRequest returns a boolean for every mimeType and filter:
\* true when contentTypes is 'all', false when contentTypes is empty, otherwise
\* true exactly when the mimeType is present, non-empty and contains one of the
\* configured content types as a substring.
C28_PassesLate ==
  LateResult
  => LET ct == reply.contentType
         f == reply.filter
     IN  /\ reply.result \in BOOLEAN
         /\ f.ctAll => reply.result = TRUE
         /\ (~f.ctAll /\ f.cts = <<>>) => reply.result = FALSE
         /\ (~f.ctAll /\ f.cts # <<>>)
            => (reply.result
                <=> /\ ct # None
                    /\ ct[1] # <<>>
                    /\ \E i \in 1..Len(f.cts) : Includes(ct[1], f.cts[i]))

C28_Witness ==
  /\ LateResult
  /\ reply.contentType = Some(MimeJsonCharset)
  /\ reply.filter.cts = <<MimeHtml, MimeJson>>
  /\ reply.result = TRUE

\* some pattern of the filter compiles and matches the url
Matches(f, url) ==
  \E i \in 1..Len(f.pats) : f.pats[i].valid /\ Includes(url, f.pats[i].lit)

InMethods(f, method) == \E i \in 1..Len(f.methods) : f.methods[i] = method

\* C29 as stated: shouldIncludeRequestByUrlAndMethod rejects exactly when
\* methods is set and the method is not in it, or urlIncludePatterns is not
\* 'all' and no pattern matches the url.
C29_PassesEarly ==
  EarlyResult
  => LET f == reply.filter
     IN  ~reply.result
         <=> \/ f.hasMethods /\ ~InMethods(f, reply.method)
             \/ ~f.urlAll /\ ~Matches(f, reply.url)

\* C29 amended: shouldIncludeRequestByUrlAndMethod rejects exactly when methods
\* is set, is not empty and the method is not in it, or urlIncludePatterns is
\* not 'all' and no pattern matches the url; with neither filter present it
\* accepts every url and method.
C29_PassesEarlyNonEmpty ==
  EarlyResult
  => LET f == reply.filter
     IN  /\ ~reply.result
            <=> \/ f.hasMethods /\ f.methods # <<>> /\ ~InMethods(f, reply.method)
                \/ ~f.urlAll /\ ~Matches(f, reply.url)
         /\ (~f.hasMethods /\ f.urlAll) => reply.result

C29_Witness ==
  /\ EarlyResult
  /\ reply.filter.hasMethods
  /\ reply.filter.methods = <<"GET">>
  /\ reply.method = "GET"
  /\ Len(reply.filter.pats) = 2
  /\ reply.url = UrlApi
  /\ reply.result = TRUE

\* C30: with methods = [] shouldIncludeRequestByUrlAndMethod accepts every
\* method: its result is that of the url pattern filter alone.
C30_EmptyMethods ==
  (EarlyResult /\ reply.filter.hasMethods /\ reply.filter.methods = <<>>)
  => (reply.result <=> (reply.filter.urlAll \/ Matches(reply.filter, reply.url)))

C30_Witness ==
  /\ EarlyResult
  /\ reply.filter.hasMethods
  /\ reply.filter.methods = <<>>
  /\ reply.method = "POST"
  /\ ~reply.filter.urlAll
  /\ reply.result = TRUE

HasInvalid(f) == \E i \in 1..Len(f.pats) : ~f.pats[i].valid

MethodPasses(f, method) == ~f.hasMethods \/ f.methods = <<>> \/ InMethods(f, method)

\* C31: with a url include pattern that does not compile,
\* shouldIncludeRequestByUrlAndMethod still returns a boolean; it accepts when
\* some valid pattern matches the url (and the method passes) and rejects when
\* none does, so a filter of invalid patterns only rejects every url.
C31_InvalidPatternSkipped ==
  (EarlyResult /\ ~reply.filter.urlAll /\ HasInvalid(reply.filter))
  => LET f == reply.filter
     IN  /\ reply.result \in BOOLEAN
         /\ (Matches(f, reply.url) /\ MethodPasses(f, reply.method)) => reply.result
         /\ ~Matches(f, reply.url) => ~reply.result
         /\ (\A i \in 1..Len(f.pats) : ~f.pats[i].valid) => ~reply.result

C31_Witness ==
  /\ EarlyResult
  /\ ~reply.filter.urlAll
  /\ Len(reply.filter.pats) = 2
  /\ ~reply.filter.pats[1].valid
  /\ reply.url = UrlApi
  /\ MethodPasses(reply.filter, reply.method)
  /\ reply.result = TRUE

\* the externalIds of the records the session holds
HeldUuids == Uuids(networkBuffer) \cup PendingUuids

\* C32: every record created by an accepted request gets a uuid that no record
\* was given before, those of evicted, discarded and cleared records included
\* (the uuids given so far are those below nextUuid); hence no two Buffer
\* records have the same uuid.
C32_IdUnique ==
  /\ [](\A i, j \in 1..Len(networkBuffer) :
          i # j => networkBuffer[i].uuid # networkBuffer[j].uuid)
  /\ [](\A u \in HeldUuids : u < nextUuid)
  /\ [][/\ nextUuid' >= nextUuid
        /\ \A u \in HeldUuids' \ HeldUuids : nextUuid <= u /\ u < nextUuid']_vars

C32_Witness ==
  /\ reply = Updated
  /\ networkBuffer # <<>>
  /\ nextUuid > Len(networkBuffer) + 1
  /\ \A i \in 1..Len(networkBuffer) : networkBuffer[i].uuid = MaxUuid

\* C33: a response-observed event for the request id of an already promoted
\* record leaves that record in the Buffer, with its response and its body as
\* they were.
C33_ResponseSetOnce ==
  [][\A w \in WsIds, id \in Ids, mime \in ResponseMimes :
       ResponseObserved(w, id, mime)
       => \A i \in 1..Len(networkBuffer) :
            (networkBuffer[i].id = id /\ networkBuffer[i].response # None)
            => \E j \in 1..Len(networkBuffer') : networkBuffer'[j] = networkBuffer[i]]_vars

\* C34: a body-fetched event changes no record that already has a body, an
\* empty body included.
C34_BodySetOnce ==
  [][\A w \in WsIds, k \in 1..MaxInflight, empty \in BOOLEAN, cmd \in CmdIds :
       BodyFetched(w, k, empty, cmd)
       => \A i \in 1..Len(networkBuffer) :
            (networkBuffer[i].response # None /\ networkBuffer[i].response[1].body # None)
            => /\ i <= Len(networkBuffer')
               /\ networkBuffer'[i] = networkBuffer[i]]_vars

\* the Buffer record with uuid u is promoted and has no body yet
AwaitsBody(u) ==
  \E i \in 1..Len(networkBuffer) :
    /\ networkBuffer[i].uuid = u
    /\ networkBuffer[i].response # None
    /\ networkBuffer[i].response[1].body = None

\* the Buffer record with uuid u holds the body fetched for the record src
HoldsBodyOf(buffer, u, src) ==
  \E i \in 1..Len(buffer) :
    /\ buffer[i].uuid = u
    /\ buffer[i].response # None
    /\ buffer[i].response[1].body # None
    /\ buffer[i].response[1].body[1].src = src

\* two records, a promoted before b, both without body, and their two fetches
\* outstanding in the order they were sent
TwoPromoted(a, b) ==
  /\ a # b
  /\ Len(inflight) = 2
  /\ inflight[1].src = a /\ inflight[2].src = b
  /\ AwaitsBody(a) /\ AwaitsBody(b)
  /\ 0 < PromoRank(a) /\ PromoRank(a) < PromoRank(b)

\* the first body has arrived and sits on b; the fetch of b is outstanding
FirstArrived(a, b) ==
  /\ a # b
  /\ Len(inflight) = 1
  /\ inflight[1].src = b
  /\ AwaitsBody(a)
  /\ HoldsBodyOf(networkBuffer, b, a)

\* C35: when two records are promoted before either body arrives and the
\* bodies arrive in the order of the fetch commands, the first body is set on
\* the later promoted record and the second body on the earlier one.
C35_BodiesSwapped ==
  [][\A w \in WsIds, empty \in BOOLEAN, a \in 1..MaxUuid, b \in 1..MaxUuid :
       /\ (TwoPromoted(a, b) /\ BodyFetched(w, 1, empty, 2))
          => HoldsBodyOf(networkBuffer', b, a) /\ AwaitsBody(a)'
       /\ (FirstArrived(a, b) /\ BodyFetched(w, 1, empty, 2))
          => HoldsBodyOf(networkBuffer', a, b) /\ HoldsBodyOf(networkBuffer', b, a)]_vars

\* C36: a malformed channel message leaves PendingSet and Buffer exactly as
\* they were, and the listener and the outstanding fetches with them, so that
\* later events are handled as if it had not arrived.
C36_MalformedSkipped ==
  [][\A w \in WsIds, shape \in MalformedShapes, r \in Requests :
       MalformedObserved(w, shape, r[1], r[2])
       => UNCHANGED <<networkBuffer, pendingRequests, sockets, inflight>>]_vars

\* C37: whenever no tool call is in progress, the session is marked as
\* monitoring exactly when its connection is open with the listener attached.
C37_FlagMatchesConnection ==
  AllIdle => (isMonitoring <=> (cdpWebSocket # 0 /\ Listening(cdpWebSocket)))

\* C38: no body-fetch reply carries the command id 1 of Network.enable, and
\* every body-fetch reply reaches the attach step: when a record awaits a body,
\* the reply sets it.
C38_FetchIdNotEnableId ==
  [][\A w \in WsIds, k \in 1..MaxInflight, empty \in BOOLEAN, cmd \in CmdIds :
       BodyFetched(w, k, empty, cmd)
       => /\ cmd # 1
          /\ LET i == FindRecentWithoutBody(networkBuffer)
             IN  i # 0
                 => networkBuffer'[i].response[1].body
                      = Some([src |-> inflight[k].src, empty |-> empty])]_vars

\* the marker of a returned body, if any, states the length of the body as
\* it was captured
MarkerTrue(o) == o # None /\ o[1].note # None => o[1].note[1] = o[1].text

\* C39: a get_request_detail call that directly follows a get_request_detail
\* call with the same uuid and the same include_headers returns the same
\* result, and every truncation marker it returns states the length of the
\* body as captured.
C39_DetailRepeatable ==
  [][\A uuid \in 1..MaxBuf, include_headers \in BOOLEAN :
       (/\ GetRequestDetail(uuid, include_headers)
        /\ reply.kind = "detail"
        /\ reply.request.uuid = uuid
        /\ (reply.request.headers # None) = include_headers)
       => /\ reply' = reply
          /\ MarkerTrue(reply'.request.body)
          /\ reply'.request.response # None
             => MarkerTrue(reply'.request.response[1].body)]_vars

====
